---------------------------- MODULE Spec2Model ----------------------------
(***************************************************************************)
(* A model of src/src/color.rs (csscolorparser): the Color value type, its *)
(* HSV / HSL / HWB conversions, byte and string formatting, and the angle  *)
(* helpers.                                                                *)
(*                                                                         *)
(* Numbers.  The program computes in f64.  The model computes in a binary  *)
(* floating-point format of the same shape with fewer bits: a value is an  *)
(* integer n standing for n / 2^FracBits, and it is a number of the format *)
(* when |n| has at most Prec significant bits.  2^-FracBits is the spacing *)
(* of the smallest (subnormal) numbers.  Every arithmetic operation        *)
(* returns the exact result rounded to the nearest number of the format,   *)
(* ties to even, as IEEE 754 does; the remainder (Rust's %, C's fmod) is   *)
(* exact.  Prec is large enough for a chain of conversions to keep its     *)
(* rounding error well below half a byte step (1/510), as f64 does; a      *)
(* product or quotient of two significands can need more than 31 bits, so  *)
(* it is formed in two parts and rounded once.                             *)
(* Every input is finite and small enough that no operation                *)
(* overflows.  An infinity appears only as the result of a division by     *)
(* zero, and NaN only where the interpolation of two saturations computes  *)
(* with such an infinity; both are stored as integers outside the range of *)
(* the numbers.                                                            *)
(***************************************************************************)
EXTENDS Integers, Sequences, FiniteSets, TLC

VARIABLES pc, ctor, op, args, color, ret

vars == <<pc, ctor, op, args, color, ret>>

(***************************************************************************)
(* Bounds of the number format.                                            *)
(***************************************************************************)
Prec == 16

FracBits == 18

\* 1.0
One == 2^FracBits

\* the integer k as a number of the format
Num(k) == k * One

Abs(n) == IF n < 0 THEN -n ELSE n

Sgn(n) == IF n < 0 THEN -1 ELSE 1

Max2(a, b) == IF a >= b THEN a ELSE b

Min2(a, b) == IF a <= b THEN a ELSE b

\* the number of bits of n >= 0 (n < 2^31), found by halving the width: a counts
\* the bits already cut off
BitLen2(n, a) == IF n >= 2 THEN a + 2 ELSE a + n

BitLen4(n, a) ==
    BitLen2(IF n >= 4 THEN n \div 4 ELSE n, IF n >= 4 THEN a + 2 ELSE a)

BitLen8(n, a) ==
    BitLen4(IF n >= 16 THEN n \div 16 ELSE n, IF n >= 16 THEN a + 4 ELSE a)

BitLen16(n, a) ==
    BitLen8(IF n >= 256 THEN n \div 256 ELSE n, IF n >= 256 THEN a + 8 ELSE a)

BitLen(n) ==
    BitLen16(IF n >= 65536 THEN n \div 65536 ELSE n, IF n >= 65536 THEN 16 ELSE 0)

\* n is a number of the format
IsFloat(n) == Abs(n) % (2^Max2(0, BitLen(Abs(n)) - Prec)) = 0

\* the integer nearest num / den, ties to even (num >= 0, den > 0)
RoundHalfEven(num, den) ==
    LET q == num \div den
        r == num % den
    IN  IF 2 * r < den THEN q
        ELSE IF 2 * r > den THEN q + 1
        ELSE IF q % 2 = 0 THEN q ELSE q + 1

\* The quantum 2^k of the number nearest (N / D) * 2^e units, c being
\* BitLen(N) - BitLen(D): with 2^fl <= N / D < 2^(fl + 1), the integer part of
\* the result has fl + 1 + e digits, of which Prec are kept.
Quantum(N, D, e, c) ==
    Max2(0, (IF N * 2^Max2(0, -c) >= D * 2^Max2(0, c) THEN c ELSE c - 1) + 1 + e - Prec)

\* the integer nearest (q + r / den), ties to even (0 <= r < den)
RoundUp(q, r, den) ==
    IF 2 * r < den THEN q
    ELSE IF 2 * r > den THEN q + 1
    ELSE IF q % 2 = 0 THEN q ELSE q + 1

\* the integer nearest (M / D) * 2^s, ties to even, the quotient taken in two
\* steps so that no intermediate needs more than 31 bits (M < 2^31)
RoundShifted(M, D, s) ==
    RoundUp((M \div D) * 2^s + ((M % D) * 2^s) \div D, ((M % D) * 2^s) % D, D)

\* the part of a shift by s that N takes below 2^30
FirstShift(N, s) == Min2(s, Max2(0, 30 - BitLen(N)))

\* (N / D) * 2^e units rounded to a multiple of 2^k
RoundAt(N, D, e, k) ==
    IF e >= k
    THEN 2^k * RoundShifted(N * 2^FirstShift(N, e - k), D, e - k - FirstShift(N, e - k))
    ELSE 2^k * RoundHalfEven(N, D * 2^(k - e))

\* The number of the format nearest (N / D) * 2^e units (N >= 0, D > 0).
RoundRat(N, D, e) ==
    IF N = 0 THEN 0 ELSE RoundAt(N, D, e, Quantum(N, D, e, BitLen(N) - BitLen(D)))

\* an exact integer count of units, rounded to the format
Fl(n) == Sgn(n) * RoundRat(Abs(n), 1, 0)

\* |n| = Mant(n) * 2^Expo(n) with Mant(n) < 2^Prec, for a number of the format
Expo(n) == Max2(0, BitLen(Abs(n)) - Prec)

Mant(n) == Abs(n) \div 2^Expo(n)

\* f64 + and -
FAdd(a, b) == Fl(a + b)

FSub(a, b) == Fl(a - b)

\* ma * mb / 2^7 for a product of more than 31 bits: the product without its low
\* byte, followed by one bit that tells whether that byte was zero.  Rounding
\* drops more than these bits, so it rounds as the product does.
MulTop(ma, mb) ==
    2 * (ma * (mb \div 256) + (ma * (mb % 256)) \div 256)
    + (IF (ma * (mb % 256)) % 256 = 0 THEN 0 ELSE 1)

\* ma * mb * 2^e units, rounded
MulRound(ma, mb, e) ==
    IF BitLen(ma) + BitLen(mb) <= 31
    THEN RoundRat(ma * mb, 1, e)
    ELSE RoundRat(MulTop(ma, mb), 1, e + 7)

\* f64 *
FMul(a, b) ==
    Sgn(a) * Sgn(b) * MulRound(Mant(a), Mant(b), Expo(a) + Expo(b) - FracBits)

\* Stands for the infinity a division of a non-zero number by zero returns.  Only
\* IeeeAdd, IeeeSub and IeeeMul compute with it.
Infinity == 2147483647

\* Stands for f64 NaN
NaN == 2147483646

IsFinite(x) == x # NaN /\ x # Infinity /\ x # -Infinity

\* f64 /
FDiv(a, b) ==
    IF b = 0 THEN Sgn(a) * Infinity
    ELSE Sgn(a) * Sgn(b) * RoundRat(Mant(a), Mant(b), Expo(a) - Expo(b) + FracBits)

\* f64 - where an operand may be an infinity or NaN
IeeeSub(a, b) ==
    IF a = NaN \/ b = NaN THEN NaN
    ELSE IF IsFinite(a) /\ IsFinite(b) THEN FSub(a, b)
    ELSE IF IsFinite(a) THEN -b
    ELSE IF IsFinite(b) THEN a
    ELSE IF a = b THEN NaN ELSE a

\* f64 + where an operand may be an infinity or NaN
IeeeAdd(a, b) ==
    IF a = NaN \/ b = NaN THEN NaN
    ELSE IF IsFinite(a) /\ IsFinite(b) THEN FAdd(a, b)
    ELSE IF IsFinite(a) THEN b
    ELSE IF IsFinite(b) THEN a
    ELSE IF a = b THEN a ELSE NaN

\* f64 * where an operand may be an infinity or NaN
IeeeMul(a, b) ==
    IF a = NaN \/ b = NaN THEN NaN
    ELSE IF IsFinite(a) /\ IsFinite(b) THEN FMul(a, b)
    ELSE IF a = 0 \/ b = 0 THEN NaN
    ELSE Sgn(a) * Sgn(b) * Infinity

\* f64 % : the remainder has the sign of the dividend and is exact
FRem(a, b) == Sgn(a) * (Abs(a) % Abs(b))

\* a decimal literal num/den of the source, as the compiler rounds it
Lit(num, den) == RoundRat(num, den, FracBits)

\* The f64 literal n / 10^k.  The literals of the Oklab matrices are written to
\* seven places: the further digits do not change the number they round to.
Dec(n, k) == RoundRat(n, 5^k, FracBits - k)

\* the largest number of the format below n, and the smallest above it (n > 0)
Pred(n) == IF n <= 2^Prec THEN n - 1
           ELSE IF n = 2^(BitLen(n) - 1) THEN n - 2^(BitLen(n) - 1 - Prec)
           ELSE n - 2^(BitLen(n) - Prec)

Succ(n) == IF n < 2^Prec THEN n + 1 ELSE n + 2^(BitLen(n) - Prec)

(***************************************************************************)
(* Angle helpers.                                                          *)
(***************************************************************************)
normalize_angle(t) ==
    LET t1 == FRem(t, Num(360))
    IN  IF t1 < 0 THEN FAdd(t1, Num(360)) ELSE t1

\* interp_delta without the +540 / -180 recentring: the plain remainder
interp_delta_plain(a0, a1) == FRem(FSub(a1, a0), Num(360))

\* the local `delta` of interp_angle
interp_delta(a0, a1) ==
    FSub(FRem(FAdd(FRem(FSub(a1, a0), Num(360)), Num(540)), Num(360)), Num(180))

\* interp_angle without the final reduction modulo 360
interp_angle_unwrapped(a0, a1, t) ==
    FAdd(FAdd(a0, FMul(t, interp_delta(a0, a1))), Num(360))

interp_angle(a0, a1, t) ==
    FRem(FAdd(FAdd(a0, FMul(t, interp_delta(a0, a1))), Num(360)), Num(360))

(***************************************************************************)
(* The Color value and its byte form.                                      *)
(***************************************************************************)
from_rgb(r, g, b) == [r |-> r, g |-> g, b |-> b, a |-> One]

from_rgba(r, g, b, a) == [r |-> r, g |-> g, b |-> b, a |-> a]

from_rgb_u8(r, g, b) ==
    [r |-> FDiv(Num(r), Num(255)), g |-> FDiv(Num(g), Num(255)),
     b |-> FDiv(Num(b), Num(255)), a |-> One]

\* from_rgba_u8 taking a byte as a fraction of 256
from_rgba_u8_of_256(r, g, b, a) ==
    [r |-> FDiv(Num(r), Num(256)), g |-> FDiv(Num(g), Num(256)),
     b |-> FDiv(Num(b), Num(256)), a |-> FDiv(Num(a), Num(256))]

from_rgba_u8(r, g, b, a) ==
    [r |-> FDiv(Num(r), Num(255)), g |-> FDiv(Num(g), Num(255)),
     b |-> FDiv(Num(b), Num(255)), a |-> FDiv(Num(a), Num(255))]

rgba(c) == <<c.r, c.g, c.b, c.a>>

\* f64::trunc: the integer part, as a number of the format
f64_trunc(x) == Sgn(x) * (Abs(x) \div One) * One

\* f64::round: the nearest integer, halves away from zero
f64_round(x) == Sgn(x) * ((Abs(x) + (One \div 2)) \div One) * One

\* `as u8` of C: the integer part reduced modulo 256
as_u8_wrapping(x) == (Sgn(x) * (Abs(x) \div One)) % 256

\* `as u8` of Rust: the integer part, saturated to 0..255
as_u8(x) ==
    IF x <= 0 THEN 0
    ELSE IF x >= Num(255) THEN 255
    ELSE x \div One

\* (x * 255.).round() as u8
round_u8(x) == as_u8(f64_round(FMul(x, Num(255))))

rgba_u8(c) == <<round_u8(c.r), round_u8(c.g), round_u8(c.b), round_u8(c.a)>>

(***************************************************************************)
(* The conversion engine.  A value the code binds with let and uses more   *)
(* than once is the parameter of a second operator here.                   *)
(***************************************************************************)
\* f64::clamp returns NaN for NaN
clamp0_1(t) == IF t = NaN THEN NaN ELSE IF t < 0 THEN 0 ELSE IF t > One THEN One ELSE t

modulo(x, n) == FRem(FAdd(FRem(x, n), n), n)

\* hue_to_rgb after let h = modulo(h, 6.)
hue_ramp(n1, n2, h) ==
    IF h < Num(1) THEN FAdd(n1, FMul(FSub(n2, n1), h))
    ELSE IF h < Num(3) THEN n2
    ELSE IF h < Num(4) THEN FAdd(n1, FMul(FSub(n2, n1), FSub(Num(4), h)))
    ELSE n1

hue_to_rgb(n1, n2, h) == hue_ramp(n1, n2, modulo(h, Num(6)))

\* hsl_to_rgb after n1, n2 and h = h / 60.
hsl_channels(n1, n2, h) ==
    <<hue_to_rgb(n1, n2, FAdd(h, Num(2))),
      hue_to_rgb(n1, n2, h),
      hue_to_rgb(n1, n2, FSub(h, Num(2)))>>

\* hsl_to_rgb after n2
hsl_chroma(h, l, n2) == hsl_channels(FSub(FMul(Num(2), l), n2), n2, FDiv(h, Num(60)))

hsl_to_rgb(h, s, l) ==
    IF s = 0 THEN <<l, l, l>>
    ELSE hsl_chroma(h, l, IF l < One \div 2
                          THEN FMul(l, FAdd(One, s))
                          ELSE FSub(FAdd(l, s), FMul(l, s)))

\* the tuple c of r, g, b scaled: c * k + white
hwb_scale(c, k, white) ==
    <<FAdd(FMul(c[1], k), white), FAdd(FMul(c[2], k), white), FAdd(FMul(c[3], k), white)>>

\* hwb_to_rgb taking the whiteness itself as the gray when white + black >= 1
hwb_to_rgb_gray_is_white(hue, white, black) ==
    IF FAdd(white, black) >= One THEN <<white, white, white>>
    ELSE hwb_scale(hsl_to_rgb(hue, One, One \div 2), FSub(FSub(One, white), black), white)

triple(l) == <<l, l, l>>

hwb_to_rgb(hue, white, black) ==
    IF FAdd(white, black) >= One
    THEN triple(FDiv(white, FAdd(white, black)))
    ELSE hwb_scale(hsl_to_rgb(hue, One, One \div 2), FSub(FSub(One, white), black), white)

\* hsv_to_hsl_at giving 0 at l = 0 and the original s at l = 1
hsv_to_hsl_at_edges_swapped(h, s, v, l) ==
    <<h,
      IF l = 0 THEN 0
      ELSE IF l = One THEN s
      ELSE IF l < One \div 2
      THEN FDiv(FMul(s, v), FMul(l, Num(2)))
      ELSE FDiv(FMul(s, v), FSub(Num(2), FMul(l, Num(2)))),
      l>>

\* hsv_to_hsl after l
hsv_to_hsl_at(h, s, v, l) ==
    <<h,
      IF l # 0
      THEN IF l = One THEN 0
           ELSE IF l < One \div 2
           THEN FDiv(FMul(s, v), FMul(l, Num(2)))
           ELSE FDiv(FMul(s, v), FSub(Num(2), FMul(l, Num(2))))
      ELSE s,
      l>>

hsv_to_hsl(h, s, v) == hsv_to_hsl_at(h, s, v, FDiv(FMul(FSub(Num(2), s), v), Num(2)))

\* hsl_to_rgb of a tuple
hsl_to_rgb_of(x) == hsl_to_rgb(x[1], x[2], x[3])

\* A NaN saturation makes l NaN, which takes the last branch of hsv_to_hsl to a NaN
\* saturation; hsl_to_rgb then has n1 and n2 NaN, and every channel is one of them.
hsv_to_rgb(h, s, v) ==
    IF s = NaN THEN <<NaN, NaN, NaN>> ELSE hsl_to_rgb_of(hsv_to_hsl(h, s, v))

Max3(r, g, b) == Max2(r, Max2(g, b))

Min3(r, g, b) == Min2(r, Min2(g, b))

\* hue_sector measuring every hue from red, whichever channel is the largest
hue_sector_from_red(r, g, max, dr, dg, db) == FSub(db, dg)

\* the hue before it is reduced, from dr, dg, db
hue_sector(r, g, max, dr, dg, db) ==
    IF r = max THEN FSub(db, dg)
    ELSE IF g = max THEN FSub(FAdd(Num(2), dr), db)
    ELSE FSub(FAdd(Num(4), dg), dr)

\* the hue both rgb_to_hsv and rgb_to_hsl compute, from the maximum and d = max - min
hue_of(r, g, b, max, d) ==
    normalize_angle(
        FRem(FMul(hue_sector(r, g, max, FDiv(FSub(max, r), d), FDiv(FSub(max, g), d),
                             FDiv(FSub(max, b), d)),
                  Num(60)),
             Num(360)))

\* rgb_to_hsv after v and d
rgb_to_hsv_at(r, g, b, v, d) ==
    IF d = 0 THEN <<0, 0, v>> ELSE <<hue_of(r, g, b, v, d), FDiv(d, v), v>>

\* v - min
spread(v, min) == FSub(v, min)

rgb_to_hsv(r, g, b) ==
    rgb_to_hsv_at(r, g, b, Max3(r, g, b), spread(Max3(r, g, b), Min3(r, g, b)))

\* rgb_to_hsl after min, max and l
rgb_to_hsl_at(r, g, b, min, max, l) ==
    IF min = max THEN <<0, 0, l>>
    ELSE <<hue_of(r, g, b, max, FSub(max, min)),
           IF l < One \div 2
           THEN FDiv(FSub(max, min), FAdd(max, min))
           ELSE FDiv(FSub(max, min), FSub(FSub(Num(2), max), min)),
           l>>

\* (max + min) / 2.
midpoint(max, min) == FDiv(FAdd(max, min), Num(2))

rgb_to_hsl(r, g, b) ==
    rgb_to_hsl_at(r, g, b, Min3(r, g, b), Max3(r, g, b),
                  midpoint(Max3(r, g, b), Min3(r, g, b)))

rgb_to_hwb(r, g, b) ==
    <<rgb_to_hsl(r, g, b)[1], Min3(r, g, b), FSub(One, Max3(r, g, b))>>

(***************************************************************************)
(* Color: the HSV, HSL and HWB constructors and accessors.                 *)
(***************************************************************************)
\* from_rgba of the clamped channels of the tuple c, and alpha a
from_clamped(c, a) == from_rgba(clamp0_1(c[1]), clamp0_1(c[2]), clamp0_1(c[3]), a)

\* from_hsva storing alpha as given
from_hsva_alpha_as_given(h, s, v, a) ==
    from_clamped(hsv_to_rgb(normalize_angle(h), clamp0_1(s), clamp0_1(v)), a)

from_hsva(h, s, v, a) ==
    from_clamped(hsv_to_rgb(normalize_angle(h), clamp0_1(s), clamp0_1(v)), clamp0_1(a))

from_hsv(h, s, v) == from_hsva(h, s, v, One)

from_hsla(h, s, l, a) ==
    from_clamped(hsl_to_rgb(normalize_angle(h), clamp0_1(s), clamp0_1(l)), clamp0_1(a))

from_hsl(h, s, l) == from_hsla(h, s, l, One)

from_hwba(h, w, b, a) ==
    from_clamped(hwb_to_rgb(normalize_angle(h), clamp0_1(w), clamp0_1(b)), a)

from_hwb(h, w, b) == from_hwba(h, w, b, One)

\* the tuple x of three components followed by alpha
with_alpha(x, a) == <<x[1], x[2], x[3], a>>

to_hsva(c) == with_alpha(rgb_to_hsv(c.r, c.g, c.b), c.a)

to_hsla(c) == with_alpha(rgb_to_hsl(c.r, c.g, c.b), c.a)

to_hwba(c) == with_alpha(rgb_to_hwb(c.r, c.g, c.b), c.a)

\* the constructors applied to the tuple an accessor returned
from_hsva_of(x) == from_hsva(x[1], x[2], x[3], x[4])

from_hsla_of(x) == from_hsla(x[1], x[2], x[3], x[4])

from_hwba_of(x) == from_hwba(x[1], x[2], x[3], x[4])

(***************************************************************************)
(* Interpolation between two colors.                                       *)
(***************************************************************************)
\* a + t * (b - a), as each interpolated field is computed
lerp(a, b, t) == IeeeAdd(a, IeeeMul(t, IeeeSub(b, a)))

interpolate_rgb(c, other, t) ==
    [r |-> lerp(c.r, other.r, t), g |-> lerp(c.g, other.g, t),
     b |-> lerp(c.b, other.b, t), a |-> lerp(c.a, other.a, t)]

\* interpolate_hsv with the interpolated coordinates converted as they are, and
\* the interpolated alpha stored as it is
interpolate_hsv_unclamped(x, y, t) ==
    from_clamped(hsv_to_rgb(interp_angle(x[1], y[1], t), clamp0_1(lerp(x[2], y[2], t)),
                            clamp0_1(lerp(x[3], y[3], t))),
                 lerp(x[4], y[4], t))

\* interpolate_hsv after the two calls of to_hsva
interpolate_hsv_of(x, y, t) ==
    from_hsva(interp_angle(x[1], y[1], t), lerp(x[2], y[2], t),
              lerp(x[3], y[3], t), lerp(x[4], y[4], t))

interpolate_hsv(c, other, t) == interpolate_hsv_of(to_hsva(c), to_hsva(other), t)

(***************************************************************************)
(* powf and cbrt.  Rust leaves their precision unspecified, so a call      *)
(* returns a set of possible results: every number within LibmUlps         *)
(* spacings of an estimate computed in the arithmetic of the format (the   *)
(* estimate is within two spacings of the correctly rounded value).        *)
(***************************************************************************)
LibmUlps == 2

\* roots are searched below this number
RootLimit == Num(4)

RECURSIVE ipow(_, _)
ipow(z, n) == IF n = 1 THEN z ELSE FMul(ipow(z, n - 1), z)

\* the largest number z of the format in [lo, hi) with z^n <= q
RECURSIVE root_search(_, _, _, _)
root_search(q, n, lo, hi) ==
    IF hi - lo <= 1 THEN Fl(lo)
    ELSE IF ipow(Fl((lo + hi) \div 2), n) <= q
         THEN root_search(q, n, (lo + hi) \div 2, hi)
         ELSE root_search(q, n, lo, (lo + hi) \div 2)

\* of z and the number above it, the one whose n-th power is nearer q
nearer_root(q, n, z) ==
    IF q - ipow(z, n) <= ipow(Succ(z), n) - q THEN z ELSE Succ(z)

\* the n-th root of q > 0
root_estimate(q, n) == nearer_root(q, n, root_search(q, n, 0, RootLimit))

RECURSIVE StepUp(_, _)
StepUp(p, k) == IF k = 0 THEN p ELSE Succ(StepUp(p, k - 1))

\* the number below q >= 0, 0 for 0
Below(q) == IF q <= 0 THEN 0 ELSE Pred(q)

RECURSIVE StepDown(_, _)
StepDown(p, k) == IF k = 0 THEN p ELSE Below(StepDown(p, k - 1))

\* what a libm function whose value is about p >= 0 may return
libm(p) == {StepUp(p, k) : k \in 0..LibmUlps} \cup {StepDown(p, k) : k \in 0..LibmUlps}

\* sq^(6/5), sq being x^2
pow_6_5(sq) == FMul(sq, root_estimate(sq, 5))

\* x.powf(2.4) for x > 0: x^(12/5) = x^2 * (x^2)^(1/5); 1 to any power is exactly 1
powf_2_4(x) == IF x = One THEN {One} ELSE libm(pow_6_5(FMul(x, x)))

\* the set of the numbers of Z with the sign of x
signed(x, Z) == {Sgn(x) * z : z \in Z}

\* the cube root of v * 8^j, halved j times
cbrt_scaled(v, j) == RoundRat(root_estimate(v * 8^j, 3), 2^j, 0)

\* the cube root of v > 0; a v below 1 is first scaled by a power of 8 to at least 1
cbrt_estimate(v) ==
    IF v >= One THEN root_estimate(v, 3)
    ELSE cbrt_scaled(v, (FracBits + 3 - BitLen(v)) \div 3)

\* x.cbrt(): odd, and exactly 0 at 0
cbrt(x) == IF x = 0 THEN {0} ELSE signed(x, libm(cbrt_estimate(Abs(x))))

(***************************************************************************)
(* Color: linear-light RGB and Oklab.  to_linear_rgba and to_oklaba are    *)
(* the sets of tuples the calls may return.                                *)
(***************************************************************************)
to_linear(x) ==
    IF x >= Dec(4045, 5)
    THEN powf_2_4(FDiv(FAdd(x, Dec(55, 3)), Dec(1055, 3)))
    ELSE {FDiv(x, Dec(1292, 2))}

\* to_linear_rgba gamma-decoding alpha as well
to_linear_rgba_alpha_decoded(c) ==
    {<<r, g, b, a>> : r \in to_linear(c.r), g \in to_linear(c.g),
                      b \in to_linear(c.b), a \in to_linear(c.a)}

to_linear_rgba(c) ==
    {<<r, g, b, c.a>> : r \in to_linear(c.r), g \in to_linear(c.g),
                        b \in to_linear(c.b)}

\* the bytes of a tuple of four fractions
bytes_of(x) == <<round_u8(x[1]), round_u8(x[2]), round_u8(x[3]), round_u8(x[4])>>

to_linear_rgba_u8(c) == {bytes_of(x) : x \in to_linear_rgba(c)}

\* a + b for s = 1 and a - b for s = -1
add_signed(a, s, b) == IF s > 0 THEN FAdd(a, b) ELSE FSub(a, b)

\* k1 * x + k2 * y + k3 * z, the signs of the last two terms being s2 and s3
mix3(k1, x, s2, k2, y, s3, k3, z) ==
    add_signed(add_signed(FMul(k1, x), s2, FMul(k2, y)), s3, FMul(k3, z))

\* to_oklaba after l_, m_, s_
oklab_of(l_, m_, s_, alpha) ==
    <<mix3(Dec(2104543, 7), l_, 1, Dec(7936178, 7), m_, -1, Dec(40720, 7), s_),
      mix3(Dec(19779985, 7), l_, -1, Dec(24285922, 7), m_, 1, Dec(4505937, 7), s_),
      mix3(Dec(259040, 7), l_, 1, Dec(7827718, 7), m_, -1, Dec(8086758, 7), s_),
      alpha>>

\* to_oklaba after r, g, b of to_linear_rgba
oklab_from_linear(r, g, b, alpha) ==
    {oklab_of(l_, m_, s_, alpha) :
        l_ \in cbrt(mix3(Dec(4121656, 7), r, 1, Dec(5362752, 7), g, 1, Dec(514576, 7), b)),
        m_ \in cbrt(mix3(Dec(2118591, 7), r, 1, Dec(6807190, 7), g, 1, Dec(1074066, 7), b)),
        s_ \in cbrt(mix3(Dec(883098, 7), r, 1, Dec(2818474, 7), g, 1, Dec(6302614, 7), b))}

to_oklaba(c) ==
    UNION {oklab_from_linear(x[1], x[2], x[3], c.a) : x \in to_linear_rgba(c)}

(***************************************************************************)
(* Formatting.  Strings are TLA+ strings.                                  *)
(***************************************************************************)
HexDigits == "0123456789abcdef"

DecDigits == "0123456789"

\* {:02x} of a u8
fmt_02x(n) ==
    SubSeq(HexDigits, (n \div 16) + 1, (n \div 16) + 1)
        \o SubSeq(HexDigits, (n % 16) + 1, (n % 16) + 1)

RECURSIVE fmt_uint(_)
\* {} of an unsigned integer
fmt_uint(n) ==
    IF n < 10 THEN SubSeq(DecDigits, n + 1, n + 1)
    ELSE fmt_uint(n \div 10) \o SubSeq(DecDigits, (n % 10) + 1, (n % 10) + 1)

\* to_hex_string choosing its form by the float alpha instead of the alpha byte
to_hex_string_by_float(c) ==
    LET u == rgba_u8(c)
    IN  IF c.a < One
        THEN "#" \o fmt_02x(u[1]) \o fmt_02x(u[2]) \o fmt_02x(u[3]) \o fmt_02x(u[4])
        ELSE "#" \o fmt_02x(u[1]) \o fmt_02x(u[2]) \o fmt_02x(u[3])

to_hex_string(c) ==
    LET u == rgba_u8(c)
    IN  IF u[4] < 255
        THEN "#" \o fmt_02x(u[1]) \o fmt_02x(u[2]) \o fmt_02x(u[3]) \o fmt_02x(u[4])
        ELSE "#" \o fmt_02x(u[1]) \o fmt_02x(u[2]) \o fmt_02x(u[3])

RECURSIVE frac_digits(_, _, _, _)
\* The fewest decimal digits of the fraction R / S (S = 2 * One) that stay within
\* the rounding interval of the number: Mm and Mp are the halves of the gaps to the
\* next number below and above, closed when incl.
frac_digits(R, Mm, Mp, incl) ==
    LET S    == 2 * One
        U    == (R * 10) \div S
        R1   == (R * 10) % S
        low  == IF incl THEN R1 <= Mm * 10 ELSE R1 < Mm * 10
        high == IF incl THEN R1 + Mp * 10 >= S ELSE R1 + Mp * 10 > S
        up   == IF low /\ high
                THEN 2 * R1 > S \/ (2 * R1 = S /\ U % 2 = 1)
                ELSE high
    IN  IF ~low /\ ~high
        THEN SubSeq(DecDigits, U + 1, U + 1) \o frac_digits(R1, Mm * 10, Mp * 10, incl)
        ELSE IF up THEN SubSeq(DecDigits, U + 2, U + 2)
        ELSE SubSeq(DecDigits, U + 1, U + 1)

\* {} of an f64: the shortest decimal that reads back as the same number, without
\* exponent (numbers of magnitude below 2^Prec)
fmt_f64(x) ==
    LET n    == Abs(x)
        q    == 2^Expo(n)
        Mp   == q
        Mm   == IF Expo(n) > 0 /\ n = 2^(BitLen(n) - 1) THEN q \div 2 ELSE q
        incl == Mant(n) % 2 = 0
        I    == n \div One
        R    == 2 * n - I * 2 * One
    IN  (IF x < 0 THEN "-" ELSE "")
            \o fmt_uint(I)
            \o (IF R = 0 THEN "" ELSE "." \o frac_digits(R, Mm, Mp, incl))

\* to_rgb_string choosing its form by the alpha byte instead of the float alpha
to_rgb_string_by_byte(c) ==
    LET u == rgba_u8(c)
    IN  IF u[4] < 255
        THEN "rgba(" \o fmt_uint(u[1]) \o "," \o fmt_uint(u[2]) \o ","
                 \o fmt_uint(u[3]) \o "," \o fmt_f64(c.a) \o ")"
        ELSE "rgb(" \o fmt_uint(u[1]) \o "," \o fmt_uint(u[2]) \o ","
                 \o fmt_uint(u[3]) \o ")"

to_rgb_string(c) ==
    LET u == rgba_u8(c)
    IN  IF c.a < One
        THEN "rgba(" \o fmt_uint(u[1]) \o "," \o fmt_uint(u[2]) \o ","
                 \o fmt_uint(u[3]) \o "," \o fmt_f64(c.a) \o ")"
        ELSE "rgb(" \o fmt_uint(u[1]) \o "," \o fmt_uint(u[2]) \o ","
                 \o fmt_uint(u[3]) \o ")"

(***************************************************************************)
(* Inputs.                                                                 *)
(***************************************************************************)
\* angles are drawn below this many degrees in magnitude
AngleLimit == 1024

\* angles are drawn with at most this many significant bits
AngleBits == 12

\* every number of at most AngleBits significant bits and magnitude below lim (an
\* integer)
FloatsBelow(lim) ==
    LET top == lim * One
        ms  == {m * 2^e : m \in 0..(2^AngleBits - 1),
                          e \in 0..Max2(0, BitLen(top) - AngleBits)}
    IN  {s * n : s \in {-1, 1}, n \in {x \in ms : x < top}}

AngleInputs == FloatsBelow(AngleLimit)

\* hues in [0,360]: whole degrees every HueStep, and numbers next to 0, 180, 360
HueStep == 30

HueInputs ==
    {Num(d) : d \in {x \in 0..360 : x % HueStep = 0}}
    \cup {Num(0), Num(90), Num(180), Num(270), Num(360)}
    \cup {1, Pred(One), Lit(1, 3), Lit(1, 10), Pred(Num(180)), Succ(Num(180)),
          Pred(Num(360)), Lit(3595, 10)}

\* interpolation parameters, inside and outside [0,1]
TInputs ==
    {Num(k) : k \in -5..5}
    \cup {1, -1, Lit(1, 4), Lit(1, 2), Lit(3, 4), Lit(1, 3), Pred(One), Succ(One),
          -Lit(1, 2), Lit(3, 2)}

\* a signed literal k/d
SLit(k, d) == Sgn(k) * Lit(Abs(k), d)

\* channel fractions are drawn on this grid, from -1/4 to 5/4
ChannelGrid == 32

\* bytes whose rounding boundaries k + 1/2 are probed
ProbeBytes == {0, 1, 127, 128, 254}

\* red channel: the grid, numbers at and next to the boundaries (k + 1/2) / 255,
\* the smallest numbers, and numbers far outside [0,1]
ChannelInputs ==
    {SLit(k, ChannelGrid) : k \in -(ChannelGrid \div 4)..(ChannelGrid + ChannelGrid \div 4)}
    \cup {Lit(2 * k + 1, 510) : k \in ProbeBytes}
    \cup {Pred(Lit(2 * k + 1, 510)) : k \in ProbeBytes}
    \cup {Succ(Lit(2 * k + 1, 510)) : k \in ProbeBytes}
    \cup {1, -1, Pred(One), Succ(One), Num(2), Num(3), -Num(3)}

\* green and blue channels
FewChannels == {0, One \div 2, One}

\* alpha: in range, at and next to 1, next to the byte boundary 254.5 / 255, outside
AlphaInputs ==
    {0, One \div 8, One \div 4, One \div 2, 3 * (One \div 4), Lit(1, 3), Lit(1, 10),
     Lit(128, 255), Lit(509, 510), Pred(Lit(509, 510)), Succ(Lit(509, 510)),
     Pred(One), One, Succ(One), 3 * (One \div 2), Num(2), -(One \div 2), -Num(3)}

ByteInputs == {0, 1, 15, 16, 127, 128, 254, 255}

\* green, blue and alpha of the colors turned into bytes
ByteGreens == {0, One}

ByteBlues == {One \div 2, One}

ByteAlphas == {-(One \div 2), One \div 2, Lit(509, 510), One, Num(2)}

\* hues given to the constructors: those of HueInputs, and hues outside [0,360]
WideHues ==
    HueInputs \cup {-1, -Lit(1, 3), -Num(90), -Num(450), Num(450), Num(720)}

\* saturation, value, lightness, whiteness, blackness: in [0,1] and outside
UnitInputs ==
    {-(One \div 2), 0, 1, One \div 4, Lit(1, 3), One \div 2, 3 * (One \div 4),
     Pred(One), One, 3 * (One \div 2)}

\* saturation and value as hsv_to_hsl receives them from from_hsva: clamped
ClampedInputs ==
    {clamp0_1(x) : x \in UnitInputs}
    \cup {k * (One \div 8) : k \in 0..8}
    \cup {Lit(1, 10), Lit(9, 10), Succ(One \div 2), Pred(One \div 2), One \div 1024}

\* hues as hsv_to_hsl receives them from from_hsva: normalized
EngineHues == {0, Num(90), Num(240), Lit(3595, 10)}

\* u8::MAX
MaxByte == 255

\* every u8
AllBytes == 0..MaxByte

\* byte colors in which red, or alpha, is any byte
ByteQuads ==
    {<<k, g, b, a>> : k \in AllBytes, g \in {0, 255}, b \in {1, 128}, a \in {0, 127, 255}}
    \cup {<<r, g, b, k>> : r \in {0, 127, 255}, g \in {0, 255}, b \in {1, 128}, k \in AllBytes}

\* opaque byte colors in which red, green or blue is any byte
ByteTriples ==
    {<<k, 0, 128>> : k \in AllBytes} \cup {<<255, k, 1>> : k \in AllBytes}
    \cup {<<127, 254, k>> : k \in AllBytes}

\* bytes of the colors taken through a color space and back: both ends, the
\* middle, and bytes between
GridBytes == {0, 1, 2, 16, 64, 100, 127, 128, 200, 254, 255}

GridAlphas == {127, 255}

\* the byte colors interpolated towards: black, a gray, white, red, a translucent
\* yellow-green, and a transparent blue next to gray
GridOthers ==
    {from_rgba_u8(0, 0, 0, 255), from_rgba_u8(127, 127, 127, 1),
     from_rgba_u8(255, 255, 255, 255), from_rgba_u8(255, 0, 0, 255),
     from_rgba_u8(200, 255, 1, 100), from_rgba_u8(127, 127, 128, 0)}

\* colors that are interpolated: channels inside [0,1] and outside
InterpReds == {-(One \div 2), 0, Lit(1, 3), One, 3 * (One \div 2)}

InterpGreens == {-(One \div 2), 0, One \div 2, One}

InterpBlues == {-(One \div 2), 0, One}

InterpAlphas == {0, One \div 2, One}

\* the colors interpolated towards: red, a translucent gray, an opaque color
\* outside [0,1] whose largest channel is 0, a transparent green, a blue, and a
\* color outside [0,1] on both sides
OtherColors ==
    {from_rgba(One, 0, 0, One),
     from_rgba(One \div 2, One \div 2, One \div 2, One \div 2),
     from_rgba(0, -(One \div 2), -(One \div 2), One),
     from_rgba(0, One, One \div 4, 0),
     from_rgba(Lit(1, 3), 0, One, One),
     from_rgba(3 * (One \div 2), 0, -(One \div 2), Num(2))}

\* interpolation parameters inside [0,1] and outside
InterpTs == {-Num(1), 0, One \div 4, One \div 2, One, Num(2)}

\* the spacing of the numbers just below 1
Epsilon == One - Pred(One)

\* channels of the colors converted to HSV, HSL and HWB: non-negative ones down to
\* the smallest number, and signed ones (kept apart: the saturation of a color
\* with a negative channel and a tiny maximum is beyond the numbers of the model)
AnyChannels ==
    {0, 1, Epsilon, Lit(1, 255), One \div 4, Lit(1, 3), One \div 2,
     Lit(128, 255), 3 * (One \div 4), Pred(One), One, Succ(One), 3 * (One \div 2)}

SignedChannels ==
    {-Num(2), -(One \div 2), -(One \div 4), 0, One \div 4, One \div 2, One, Num(2)}

FewAlphas == {-(One \div 2), One \div 2, One, Num(2)}

\* colors converted to every color space: few channels, alpha in [0,1] and outside
SomeReds == {-(One \div 2), 0, Lit(1, 32), One \div 2, One, Num(2)}

SomeGreens == {0, One}

SomeBlues == {0, Lit(1, 50)}

SomeAlphas == {-(One \div 2), 0, Lit(1, 3), One, Succ(One), Num(2)}

(***************************************************************************)
(* The state machine.  A behaviour is one use of the library: either one   *)
(* call of an angle helper, or the construction of a Color (pc = "built")  *)
(* followed by one call of a method on it (pc = "done").  ctor and args    *)
(* name the constructor (or helper) and its arguments, op the method, ret  *)
(* what the last call returned.                                            *)
(***************************************************************************)
NoColor == [r |-> 0, g |-> 0, b |-> 0, a |-> 0]

Init ==
    /\ pc = "idle"
    /\ ctor = "none"
    /\ op = "none"
    /\ args = <<>>
    /\ color = NoColor
    /\ ret = <<>>

NormalizeAngle ==
    /\ pc = "idle"
    /\ \E t \in AngleInputs :
          /\ args' = <<t>>
          /\ ret' = <<normalize_angle(t)>>
    /\ op' = "normalize_angle"
    /\ pc' = "done"
    /\ UNCHANGED <<ctor, color>>

InterpAngle ==
    /\ pc = "idle"
    /\ \E a0 \in HueInputs, a1 \in HueInputs, t \in TInputs :
          /\ args' = <<a0, a1, t>>
          /\ ret' = <<interp_angle(a0, a1, t)>>
    /\ op' = "interp_angle"
    /\ pc' = "done"
    /\ UNCHANGED <<ctor, color>>

NextAngle == NormalizeAngle \/ InterpAngle

SpecAngle == Init /\ [][NextAngle]_vars

\* a constructor returned c
Built(name, a, c) ==
    /\ pc = "idle"
    /\ pc' = "built"
    /\ ctor' = name
    /\ args' = a
    /\ color' = c
    /\ UNCHANGED <<op, ret>>

\* a method of the color returned v
Called(name, v) ==
    /\ pc = "built"
    /\ pc' = "done"
    /\ op' = name
    /\ ret' = v
    /\ UNCHANGED <<ctor, args, color>>

FromRgba ==
    /\ pc = "idle"
    /\ \E r \in ChannelInputs, g \in FewChannels, b \in FewChannels, a \in AlphaInputs :
           Built("from_rgba", <<r, g, b, a>>, from_rgba(r, g, b, a))

FromRgbU8 ==
    /\ pc = "idle"
    /\ \E r \in ByteInputs, g \in ByteInputs, b \in ByteInputs :
           Built("from_rgb_u8", <<r, g, b>>, from_rgb_u8(r, g, b))

FromRgbaU8 ==
    /\ pc = "idle"
    /\ \E r \in ByteInputs, g \in {0, 255}, b \in {0, 128}, a \in ByteInputs :
           Built("from_rgba_u8", <<r, g, b, a>>, from_rgba_u8(r, g, b, a))

ToHexString == Called("to_hex_string", to_hex_string(color))

ToRgbString == Called("to_rgb_string", to_rgb_string(color))

NextFormat ==
    \/ FromRgba
    \/ FromRgbU8
    \/ FromRgbaU8
    \/ ToHexString
    \/ ToRgbString

SpecFormat == Init /\ [][NextFormat]_vars

FromRgbaBytes ==
    /\ pc = "idle"
    /\ \E r \in ChannelInputs, g \in ByteGreens, b \in ByteBlues, a \in ByteAlphas :
           Built("from_rgba", <<r, g, b, a>>, from_rgba(r, g, b, a))

RgbaU8 == Called("rgba_u8", rgba_u8(color))

ToLinearRgbaU8 ==
    /\ pc = "built"
    /\ \E v \in to_linear_rgba_u8(color) : Called("to_linear_rgba_u8", v)

NextBytes ==
    \/ FromRgbaBytes
    \/ FromRgbaU8
    \/ RgbaU8
    \/ ToLinearRgbaU8

SpecBytes == Init /\ [][NextBytes]_vars

FromRgbaAny ==
    /\ pc = "idle"
    /\ \E ch \in {AnyChannels, SignedChannels} :
         \E r \in ch, g \in ch, b \in ch, a \in FewAlphas :
           Built("from_rgba", <<r, g, b, a>>, from_rgba(r, g, b, a))

FromHsva ==
    /\ pc = "idle"
    /\ \E h \in WideHues, s \in UnitInputs, v \in UnitInputs, a \in FewAlphas :
           Built("from_hsva", <<h, s, v, a>>, from_hsva(h, s, v, a))

FromHsla ==
    /\ pc = "idle"
    /\ \E h \in WideHues, s \in UnitInputs, l \in UnitInputs, a \in FewAlphas :
           Built("from_hsla", <<h, s, l, a>>, from_hsla(h, s, l, a))

FromHwba ==
    /\ pc = "idle"
    /\ \E h \in WideHues, w \in UnitInputs, b \in UnitInputs, a \in FewAlphas :
           Built("from_hwba", <<h, w, b, a>>, from_hwba(h, w, b, a))

ToHsva == Called("to_hsva", to_hsva(color))

ToHsla == Called("to_hsla", to_hsla(color))

ToHwba == Called("to_hwba", to_hwba(color))

NextHsx ==
    \/ FromRgbaAny
    \/ FromHsva
    \/ FromHsla
    \/ FromHwba
    \/ ToHsva
    \/ ToHsla
    \/ ToHwba

SpecHsx == Init /\ [][NextHsx]_vars

FromRgbaSome ==
    /\ pc = "idle"
    /\ \E r \in SomeReds, g \in SomeGreens, b \in SomeBlues, a \in SomeAlphas :
           Built("from_rgba", <<r, g, b, a>>, from_rgba(r, g, b, a))

ToLinearRgba ==
    /\ pc = "built"
    /\ \E v \in to_linear_rgba(color) : Called("to_linear_rgba", v)

ToOklaba ==
    /\ pc = "built"
    /\ \E v \in to_oklaba(color) : Called("to_oklaba", v)

NextAlpha ==
    \/ FromRgbaSome
    \/ ToHsva
    \/ ToHsla
    \/ ToHwba
    \/ ToLinearRgba
    \/ ToOklaba

SpecAlpha == Init /\ [][NextAlpha]_vars

FromRgbU8All ==
    /\ pc = "idle"
    /\ \E x \in ByteTriples :
           Built("from_rgb_u8", x, from_rgb_u8(x[1], x[2], x[3]))

FromRgbaU8All ==
    /\ pc = "idle"
    /\ \E x \in ByteQuads :
           Built("from_rgba_u8", x, from_rgba_u8(x[1], x[2], x[3], x[4]))

NextByteTrip == FromRgbU8All \/ FromRgbaU8All \/ RgbaU8

SpecByteTrip == Init /\ [][NextByteTrip]_vars

\* a method taking another color and t returned out
Interpolated(name, other, t, out) ==
    Called(name, [other |-> other, t |-> t, out |-> out])

FromRgbaU8Grid ==
    /\ pc = "idle"
    /\ \E r \in GridBytes, g \in GridBytes, b \in GridBytes, a \in GridAlphas :
           Built("from_rgba_u8", <<r, g, b, a>>, from_rgba_u8(r, g, b, a))

\* Color::from_hsva applied to the coordinates to_hsva returned
ThroughHsva == Called("to_hsva, from_hsva", from_hsva_of(to_hsva(color)))

ThroughHsla == Called("to_hsla, from_hsla", from_hsla_of(to_hsla(color)))

ThroughHwba == Called("to_hwba, from_hwba", from_hwba_of(to_hwba(color)))

\* interpolate_hsv at the two ends of the interpolation
InterpolateHsvEnds ==
    /\ pc = "built"
    /\ \E other \in GridOthers, t \in {0, One} :
           Interpolated("interpolate_hsv", other, t, interpolate_hsv(color, other, t))

NextRoundTrip ==
    \/ FromRgbaU8Grid
    \/ ThroughHsva
    \/ ThroughHsla
    \/ ThroughHwba
    \/ InterpolateHsvEnds

SpecRoundTrip == Init /\ [][NextRoundTrip]_vars

FromRgbaInterp ==
    /\ pc = "idle"
    /\ \E r \in InterpReds, g \in InterpGreens, b \in InterpBlues, a \in InterpAlphas :
           Built("from_rgba", <<r, g, b, a>>, from_rgba(r, g, b, a))

InterpolateRgb ==
    /\ pc = "built"
    /\ \E other \in OtherColors, t \in InterpTs :
           Interpolated("interpolate_rgb", other, t, interpolate_rgb(color, other, t))

InterpolateHsv ==
    /\ pc = "built"
    /\ \E other \in OtherColors, t \in InterpTs :
           Interpolated("interpolate_hsv", other, t, interpolate_hsv(color, other, t))

NextInterp == FromRgbaInterp \/ InterpolateRgb \/ InterpolateHsv

SpecInterp == Init /\ [][NextInterp]_vars

HsvToHsl ==
    /\ pc = "idle"
    /\ \E h \in EngineHues, s \in ClampedInputs, v \in ClampedInputs :
          /\ args' = <<h, s, v>>
          /\ ret' = hsv_to_hsl(h, s, v)
    /\ op' = "hsv_to_hsl"
    /\ pc' = "done"
    /\ UNCHANGED <<ctor, color>>

HsvToRgb ==
    /\ pc = "idle"
    /\ \E h \in EngineHues, s \in ClampedInputs, v \in ClampedInputs :
          /\ args' = <<h, s, v>>
          /\ ret' = hsv_to_rgb(h, s, v)
    /\ op' = "hsv_to_rgb"
    /\ pc' = "done"
    /\ UNCHANGED <<ctor, color>>

NextEngine == HsvToHsl \/ HsvToRgb

SpecEngine == Init /\ [][NextEngine]_vars

(***************************************************************************)
(* Claims about the angle helpers, checked under SpecAngle.                *)
(***************************************************************************)
\* multiples of a full turn added to an angle in C1
MaxTurns == 2

InTurn(x) == 0 <= x /\ x < Num(360)

\* a whole number of degrees: on such hues every operation of interp_angle is exact
Whole(x) == x % One = 0

\* a - b is a multiple of 360 degrees (exact, on the integers of the grid)
Congruent(a, b) == (a - b) % Num(360) = 0

\* C1: normalize_angle(h) lies in [0,360) for every h, and normalize_angle(h + 360k)
\* = normalize_angle(h) for every integer k (taken over the k for which h + 360k is
\* itself a number of the format, so that the argument is the angle meant).
C1_NormalizeAngle ==
    op = "normalize_angle" =>
        /\ InTurn(ret[1])
        /\ \A k \in -MaxTurns..MaxTurns :
              IsFloat(args[1] + k * Num(360)) =>
                  normalize_angle(args[1] + k * Num(360)) = ret[1]

\* C2 as stated: for h1, h2 in [0,360] delta lies in (-180,180], a half turn being
\* taken as +180, and delta is congruent to h2 - h1 modulo 360 (the congruence taken
\* on whole degrees, where no operation rounds).
C2_DeltaUpperClosed ==
    op = "interp_angle" =>
        LET d == interp_delta(args[1], args[2])
        IN  /\ -Num(180) < d /\ d <= Num(180)
            /\ (Whole(args[1]) /\ Whole(args[2])) => Congruent(d, args[2] - args[1])

\* C2 amended: delta lies in [-180,180): a difference of exactly half a turn, either
\* way round, is taken as -180; on whole degrees delta is congruent to h2 - h1
\* modulo 360.
C2_DeltaLowerClosed ==
    op = "interp_angle" =>
        LET d == interp_delta(args[1], args[2])
        IN  /\ -Num(180) <= d /\ d < Num(180)
            /\ Abs(args[2] - args[1]) = Num(180) => d = -Num(180)
            /\ (Whole(args[1]) /\ Whole(args[2])) => Congruent(d, args[2] - args[1])

\* C2 witness: the hues are half a turn apart and delta is -180
C2_HalfTurn ==
    /\ op = "interp_angle"
    /\ args[2] - args[1] = Num(180)
    /\ interp_delta(args[1], args[2]) = -Num(180)

\* C3 as stated: for h1, h2 in [0,360] and every t the result lies in [0,360), it is
\* h1 mod 360 at t = 0 and h2 mod 360 at t = 1 (the end points taken on whole
\* degrees, where no operation rounds).
C3_InterpInTurnAnyT ==
    op = "interp_angle" =>
        /\ InTurn(ret[1])
        /\ (args[3] = 0 /\ Whole(args[1])) => ret[1] = args[1] % Num(360)
        /\ (args[3] = One /\ Whole(args[1]) /\ Whole(args[2]))
              => ret[1] = args[2] % Num(360)

\* C3 amended: the result lies in [0,360) for -2 <= t <= 2 (so for the documented
\* 0 <= t <= 1) and in (-360,360) for every t; on whole degrees it is h1 mod 360 at
\* t = 0 and h2 mod 360 at t = 1.
C3_InterpInTurnSmallT ==
    op = "interp_angle" =>
        /\ Abs(args[3]) <= Num(2) => InTurn(ret[1])
        /\ -Num(360) < ret[1] /\ ret[1] < Num(360)
        /\ (args[3] = 0 /\ Whole(args[1])) => ret[1] = args[1] % Num(360)
        /\ (args[3] = One /\ Whole(args[1]) /\ Whole(args[2]))
              => ret[1] = args[2] % Num(360)

\* C3 witness: t outside [0,1], hues in range, and the result still inside the turn
C3_OutsideUnitT ==
    /\ op = "interp_angle"
    /\ args[3] = -Num(2)
    /\ args[1] = Num(90) /\ args[2] = Num(270)
    /\ InTurn(ret[1])

(***************************************************************************)
(* Claims about the byte form, checked under SpecBytes, and about the      *)
(* strings, checked under SpecFormat.                                      *)
(***************************************************************************)
Half == One \div 2

\* the color of the spec's example from_rgba(1, 1, 0.5, 0.5)
IsExampleRgba == ctor = "from_rgba" /\ args = <<One, One, Half, Half>>

\* the color of the spec's example from_rgb_u8(255, 0, 0)
IsExampleRed == ctor = "from_rgb_u8" /\ args = <<255, 0, 0>>

\* k is the integer nearest p, halves away from zero, saturated to 0..255
NearestByte(p, k) ==
    /\ k \in 0..255
    /\ p < Half => k = 0
    /\ p >= Num(254) + Half => k = 255
    /\ (Half <= p /\ p < Num(254) + Half) =>
          ((2 * k - 1) * Half <= p /\ p < (2 * k + 1) * Half)

\* C4: rgba_u8 maps each component x to the integer nearest 255*x (the f64
\* product), halves away from zero, saturated to 0..255: 0 below 0.5 and for
\* negative x, 255 from 254.5 on and for x > 1, never truncated and never wrapped
\* modulo 256; from_rgba(1,1,0.5,0.5) gives (255,255,128,128).  to_linear_rgba_u8
\* does the same to the components of to_linear_rgba.
C4_RoundsToNearestByte ==
    /\ op = "rgba_u8" =>
        /\ \A i \in 1..4 : NearestByte(FMul(rgba(color)[i], Num(255)), ret[i])
        /\ IsExampleRgba => ret = <<255, 255, 128, 128>>
    /\ op = "to_linear_rgba_u8" =>
        \E x \in to_linear_rgba(color) :
            \A i \in 1..4 : NearestByte(FMul(x[i], Num(255)), ret[i])

\* C4 witness: a component above 1 saturates, a half rounds up, a negative gives 0
C4_TieAndSaturation ==
    /\ op = "rgba_u8"
    /\ args = <<Num(2), One, Half, -Half>>
    /\ ret = <<255, 255, 128, 0>>

LowerHex == <<"0", "1", "2", "3", "4", "5", "6", "7", "8", "9", "a", "b", "c", "d", "e", "f">>

\* the two characters of s at i are the lowercase hexadecimal digits of n
IsHexByteAt(s, i, n) ==
    SubSeq(s, i, i + 1) = LowerHex[(n \div 16) + 1] \o LowerHex[(n % 16) + 1]

\* C5: to_hex_string gives #rrggbbaa (9 characters) exactly when the alpha byte of
\* rgba_u8 is below 255 and #rrggbb (7 characters) exactly when it is 255, each
\* channel as two lowercase hexadecimal digits; from_rgb_u8(255,0,0) gives
\* "#ff0000" and from_rgba(1,1,0.5,0.5) gives "#ffff8080".
C5_HexForm ==
    op = "to_hex_string" =>
        LET u == rgba_u8(color)
        IN  /\ (Len(ret) = 9) <=> (u[4] < 255)
            /\ (Len(ret) = 7) <=> (u[4] = 255)
            /\ SubSeq(ret, 1, 1) = "#"
            /\ \A i \in 1..((Len(ret) - 1) \div 2) : IsHexByteAt(ret, 2 * i, u[i])
            /\ IsExampleRed => ret = "#ff0000"
            /\ IsExampleRgba => ret = "#ffff8080"

\* C5 witness: the float alpha is below 1, its byte is 255, and the short form is
\* emitted
C5_AlphaByteDecides ==
    /\ op = "to_hex_string"
    /\ color.a < One
    /\ rgba_u8(color)[4] = 255
    /\ Len(ret) = 7

RECURSIVE IndexOf(_, _, _)
\* the first place at or after i where s holds the character ch, or 0
IndexOf(s, ch, i) ==
    IF i > Len(s) THEN 0
    ELSE IF SubSeq(s, i, i) = ch THEN i
    ELSE IndexOf(s, ch, i + 1)

RECURSIVE Split(_)
\* the fields of s between its commas
Split(s) ==
    LET i == IndexOf(s, ",", 1)
    IN  IF i = 0 THEN <<s>>
        ELSE <<SubSeq(s, 1, i - 1)>> \o Split(SubSeq(s, i + 1, Len(s)))

\* the arguments of "name(a,b,...)"
Fields(s) == Split(SubSeq(s, IndexOf(s, "(", 1) + 1, Len(s) - 1))

DigitVal(ch) == CHOOSE d \in 0..9 : SubSeq(DecDigits, d + 1, d + 1) = ch

RECURSIVE ParseUint(_)
\* the value of a string of decimal digits
ParseUint(s) ==
    IF Len(s) = 0 THEN 0
    ELSE 10 * ParseUint(SubSeq(s, 1, Len(s) - 1)) + DigitVal(SubSeq(s, Len(s), Len(s)))

\* the number of the format a decimal string reads as (str::parse::<f64>)
ParseDec(s) ==
    LET neg  == Len(s) > 0 /\ SubSeq(s, 1, 1) = "-"
        body == IF neg THEN SubSeq(s, 2, Len(s)) ELSE s
        dot  == IndexOf(body, ".", 1)
        ip   == IF dot = 0 THEN body ELSE SubSeq(body, 1, dot - 1)
        fp   == IF dot = 0 THEN "" ELSE SubSeq(body, dot + 1, Len(body))
        k    == Len(fp)
        v    == RoundRat(ParseUint(ip) * 10^k + ParseUint(fp), 5^k, FracBits - k)
    IN  IF neg THEN -v ELSE v

\* C6: to_rgb_string gives rgba(r,g,b,alpha) exactly when the float alpha is below
\* 1, alpha being printed as the fraction itself (it reads back as the same
\* number), and rgb(r,g,b) exactly when alpha is at least 1; r, g, b are the bytes
\* of rgba_u8.  The alpha byte plays no part in the choice.
C6_RgbForm ==
    op = "to_rgb_string" =>
        LET u == rgba_u8(color)
            f == Fields(ret)
        IN  /\ (color.a < One) <=> (SubSeq(ret, 1, 5) = "rgba(")
            /\ (color.a >= One) <=> (SubSeq(ret, 1, 4) = "rgb(")
            /\ SubSeq(ret, Len(ret), Len(ret)) = ")"
            /\ Len(f) = IF color.a < One THEN 4 ELSE 3
            /\ \A i \in 1..3 : ParseUint(f[i]) = u[i]
            /\ color.a < One => ParseDec(f[4]) = color.a
            /\ IsExampleRed => ret = "rgb(255,0,0)"
            /\ IsExampleRgba => ret = "rgba(255,255,128,0.5)"

\* C6 witness: the float alpha is below 1 and its byte is 255 (to_hex_string
\* emits the short form), and the rgba( form is emitted
C6_FloatAlphaDecides ==
    /\ op = "to_rgb_string"
    /\ color.a < One
    /\ rgba_u8(color)[4] = 255
    /\ to_hex_string(color) = "#ffffff"
    /\ SubSeq(ret, 1, 5) = "rgba("

(***************************************************************************)
(* Claims about the HSV, HSL and HWB conversions, checked under SpecHsx.   *)
(***************************************************************************)
InUnit(x) == 0 <= x /\ x <= One

\* C7: from_hsva and from_hsla return r, g, b and alpha all in [0,1] whatever the
\* arguments; from_hwba returns r, g, b in [0,1] and stores the alpha it was given,
\* unchanged
C7_ChannelsClamped ==
    /\ ctor \in {"from_hsva", "from_hsla"} =>
          InUnit(color.r) /\ InUnit(color.g) /\ InUnit(color.b) /\ InUnit(color.a)
    /\ ctor = "from_hwba" =>
          InUnit(color.r) /\ InUnit(color.g) /\ InUnit(color.b) /\ color.a = args[4]

\* C7 witness: from_hwba of a chromatic color was given alpha 2 and stored it,
\* outside [0,1]
C7_HwbAlphaOutside ==
    /\ ctor = "from_hwba"
    /\ args = <<Num(120), One \div 4, One \div 4, Num(2)>>
    /\ color.a = Num(2)
    /\ color.g > color.r

Gray(c) == c.r = c.g /\ c.g = c.b

\* C8: for every hue, from_hsla with (clamped) saturation 0, from_hsva with
\* (clamped) saturation 0 and from_hwba with clamped whiteness + blackness >= 1
\* return r = g = b, equal to the clamped l, the clamped v and w / (w + b); to_hsva,
\* to_hsla and to_hwba of a color with r = g = b report hue exactly 0, and to_hsva
\* and to_hsla saturation 0
C8_Achromatic ==
    /\ ctor = "from_hsla" /\ clamp0_1(args[2]) = 0 =>
          Gray(color) /\ color.r = clamp0_1(args[3])
    /\ ctor = "from_hsva" /\ clamp0_1(args[2]) = 0 =>
          Gray(color) /\ color.r = clamp0_1(args[3])
    /\ ctor = "from_hwba" /\ FAdd(clamp0_1(args[2]), clamp0_1(args[3])) >= One =>
          /\ Gray(color)
          /\ color.r = FDiv(clamp0_1(args[2]),
                            FAdd(clamp0_1(args[2]), clamp0_1(args[3])))
    /\ op \in {"to_hsva", "to_hsla", "to_hwba"} /\ Gray(color) => ret[1] = 0
    /\ op \in {"to_hsva", "to_hsla"} /\ Gray(color) => ret[2] = 0

\* C8 witness: from_hwba with whiteness 3/4 and blackness 1/2 at hue 90 gave the
\* gray 0.6 (rounded), and to_hwba reported hue 0 for it
C8_HwbGray ==
    /\ ctor = "from_hwba"
    /\ args[1] = Num(90) /\ args[2] = 3 * (One \div 4) /\ args[3] = One \div 2
    /\ color.r = Lit(3, 5)
    /\ op = "to_hwba"
    /\ ret[1] = 0

\* C9: the hue reported by to_hsva, to_hsla and to_hwba lies in [0,360) for every
\* color
C9_HueInTurn ==
    op \in {"to_hsva", "to_hsla", "to_hwba"} => InTurn(ret[1])

(***************************************************************************)
(* The claim about alpha, checked under SpecAlpha.                         *)
(***************************************************************************)
\* C10: to_hsva, to_hsla, to_hwba, to_linear_rgba and to_oklaba return the alpha
\* field of the color as their fourth component, unchanged (not gamma-decoded, not
\* clamped), whatever r, g and b are
C10_AlphaUnchanged ==
    op \in {"to_hsva", "to_hsla", "to_hwba", "to_linear_rgba", "to_oklaba"} =>
        ret[4] = color.a

\* C10 witness: to_linear_rgba decoded the red channel 1/2 of a color and returned
\* its alpha 2, which is outside [0,1] and which decoding would change
C10_AlphaOutsideKept ==
    /\ op = "to_linear_rgba"
    /\ color.r = One \div 2 /\ color.a = Num(2)
    /\ ret[1] < One \div 4
    /\ ret[4] = Num(2)

(***************************************************************************)
(* The claim about hsv_to_hsl, checked under SpecEngine.                   *)
(***************************************************************************)
\* l = (2 - s) * v / 2 in f64
lightness(s, v) == FDiv(FMul(FSub(Num(2), s), v), Num(2))

\* s * v / d in f64
ratio(s, v, d) == FDiv(FMul(s, v), d)

\* C11 as stated: hsv_to_hsl returns the hue unchanged, l = (2-s)*v/2, and the
\* saturation s*v/l for 0 < l < 0.5, s*v/(2-2l) for 0.5 <= l < 1, 0 for l = 0 and
\* the original s for l = 1
C11_AsStated ==
    op = "hsv_to_hsl" =>
        /\ ret[1] = args[1]
        /\ ret[3] = lightness(args[2], args[3])
        /\ ret[3] = 0 => ret[2] = 0
        /\ ret[3] = One => ret[2] = args[2]
        /\ (0 < ret[3] /\ ret[3] < One \div 2) =>
              ret[2] = ratio(args[2], args[3], ret[3])
        /\ (One \div 2 <= ret[3] /\ ret[3] < One) =>
              ret[2] = ratio(args[2], args[3], FSub(Num(2), FMul(Num(2), ret[3])))

\* C11: hsv_to_hsl returns the hue unchanged, l = (2-s)*v/2, and the saturation
\* s for l = 0, 0 for l = 1, and otherwise s*v/(2l) when l < 0.5 and s*v/(2-2l)
\* when l >= 0.5; hsv_to_rgb is hsl_to_rgb of that triple
C11_Branching ==
    /\ op = "hsv_to_hsl" =>
        /\ ret[1] = args[1]
        /\ ret[3] = lightness(args[2], args[3])
        /\ ret[3] = 0 => ret[2] = args[2]
        /\ ret[3] = One => ret[2] = 0
        /\ (ret[3] # 0 /\ ret[3] < One \div 2) =>
              ret[2] = ratio(args[2], args[3], FMul(Num(2), ret[3]))
        /\ (ret[3] >= One \div 2 /\ ret[3] # One) =>
              ret[2] = ratio(args[2], args[3], FSub(Num(2), FMul(Num(2), ret[3])))
    /\ op = "hsv_to_rgb" =>
        ret = hsl_to_rgb_of(hsv_to_hsl(args[1], args[2], args[3]))

\* C11 witness: the smallest saturation at value 1 gives l = 1 after rounding, and
\* the saturation returned is 0, not the original one
C11_FullLightness ==
    /\ op = "hsv_to_hsl"
    /\ args[2] = 1 /\ args[3] = One
    /\ ret[3] = One
    /\ ret[2] = 0

(***************************************************************************)
(* The claim about interpolation, checked under SpecInterp.                *)
(***************************************************************************)
InUnitColor(c) == InUnit(c.r) /\ InUnit(c.g) /\ InUnit(c.b) /\ InUnit(c.a)

\* C12 as stated: for every pair of colors and every t, inside [0,1] or outside,
\* the color interpolate_hsv returns has r, g, b and a all in [0,1]
C12_HsvInUnit ==
    op = "interpolate_hsv" => InUnitColor(ret.out)

\* C12: for every pair of colors with r, g, b and a in [0,1] and every t, inside
\* [0,1] or outside, the color interpolate_hsv returns has r, g, b and a all in
\* [0,1]; interpolate_rgb returns the per-field lerp c1 + t*(c2 - c1) of r, g, b
\* and a, unclamped
C12_HsvInUnitFromUnit ==
    /\ (op = "interpolate_hsv" /\ InUnitColor(color) /\ InUnitColor(ret.other))
          => InUnitColor(ret.out)
    /\ op = "interpolate_rgb" =>
          /\ ret.out.r = FAdd(color.r, FMul(ret.t, FSub(ret.other.r, color.r)))
          /\ ret.out.g = FAdd(color.g, FMul(ret.t, FSub(ret.other.g, color.g)))
          /\ ret.out.b = FAdd(color.b, FMul(ret.t, FSub(ret.other.b, color.b)))
          /\ ret.out.a = FAdd(color.a, FMul(ret.t, FSub(ret.other.a, color.a)))

\* C12 witness: two colors in [0,1] and a t outside [0,1] for which the interpolated
\* value and alpha both leave [0,1], and interpolate_hsv still returns a color in
\* [0,1]
C12_ClampedOutsideT ==
    /\ op = "interpolate_hsv"
    /\ InUnitColor(color) /\ InUnitColor(ret.other)
    /\ ~InUnit(ret.t)
    /\ ~InUnit(lerp(to_hsva(color)[3], to_hsva(ret.other)[3], ret.t))
    /\ ~InUnit(lerp(color.a, ret.other.a, ret.t))
    /\ InUnitColor(ret.out)

\* interpolate_hsv returns NaN channels exactly when a saturation is infinite and the
\* lerp of the saturations meets 0 * infinity or infinity - infinity
C12_NaNFromInfiniteSaturation ==
    op = "interpolate_hsv" =>
        (ret.out.r = NaN <=>
            \/ (to_hsva(color)[2] = Infinity /\ to_hsva(ret.other)[2] = Infinity)
            \/ (to_hsva(color)[2] = Infinity /\ ret.t >= 0)
            \/ (to_hsva(ret.other)[2] = Infinity /\ ret.t = 0))

\* interpolate_rgb of two colors in [0,1] stays in [0,1] for t in [0,1]
C12_RgbInUnitInsideT ==
    (op = "interpolate_rgb" /\ InUnitColor(color) /\ InUnitColor(ret.other)
        /\ InUnit(ret.t)) => InUnitColor(ret.out)

\* interpolate_rgb of two colors in [0,1] leaves [0,1] for a t outside [0,1]
C12_RgbLeavesUnit ==
    /\ op = "interpolate_rgb"
    /\ InUnitColor(color) /\ InUnitColor(ret.other)
    /\ ~InUnit(ret.t)
    /\ ~InUnitColor(ret.out)

(***************************************************************************)
(* The byte round trip, checked under SpecByteTrip.                        *)
(***************************************************************************)
\* C13: for all bytes r, g, b, a, rgba_u8 of from_rgba_u8(r, g, b, a) is (r, g, b, a)
\* and rgba_u8 of from_rgb_u8(r, g, b) is (r, g, b, 255)
C13_ByteRoundTrip ==
    op = "rgba_u8" =>
        /\ ctor = "from_rgba_u8" => ret = args
        /\ ctor = "from_rgb_u8" => ret = <<args[1], args[2], args[3], 255>>

\* C13 witness: bytes r and a for which the stored fractions are not exactly r/255
\* and a/255 (the divisions rounded), and which rgba_u8 still returns
C13_InexactFraction ==
    /\ op = "rgba_u8"
    /\ ctor = "from_rgba_u8"
    /\ color.r * 255 # Num(args[1])
    /\ color.a * 255 # Num(args[4])
    /\ ret = args

(***************************************************************************)
(* The round trips through HSV, HSL and HWB, checked under SpecRoundTrip.  *)
(***************************************************************************)
\* C14: a color built by from_rgba_u8 and rebuilt by from_hsva from its to_hsva
\* coordinates, by from_hsla from its to_hsla coordinates, or by from_hwba from its
\* to_hwba coordinates, has the bytes it was built from; interpolate_hsv of two such
\* colors has the bytes of the first at t = 0 and the bytes of the second at t = 1
C14_SameBytes ==
    /\ op \in {"to_hsva, from_hsva", "to_hsla, from_hsla", "to_hwba, from_hwba"} =>
          rgba_u8(ret) = args
    /\ (op = "interpolate_hsv" /\ ret.t = 0) => rgba_u8(ret.out) = args
    /\ (op = "interpolate_hsv" /\ ret.t = One) => rgba_u8(ret.out) = rgba_u8(ret.other)

\* C14 witness: from a gray, whose hue is reported as 0, interpolate_hsv at t = 1
\* reaches a color that is not gray; the result differs from it in the last places
\* and has its bytes
C14_GrayToColor ==
    /\ op = "interpolate_hsv"
    /\ ret.t = One
    /\ Gray(color) /\ ~Gray(ret.other)
    /\ to_hsva(color)[1] = 0
    /\ ret.out # ret.other
    /\ rgba_u8(ret.out) = rgba_u8(ret.other)

\* a color that to_hsva and from_hsva do not give back exactly, but with its bytes
C14_InexactRebuild ==
    /\ op = "to_hsva, from_hsva"
    /\ ret # color
    /\ rgba_u8(ret) = args

=============================================================================
